---- MODULE Spec2Model ----
(***************************************************************************)
(* A model of the MAVLink man-in-the-middle proxy.                         *)
(*                                                                         *)
(*  - src/mitm.py: the forwarding router with operator takeover (main),    *)
(*    the injector thread (injector_loop), the operator's input queue      *)
(*    (stdin_reader / get_user_input) and the frequency estimator.         *)
(*  - src/backend/main.py: the raw-capture observer's change detection     *)
(*    (raw_worker) and the two plain UDP forwarders.                       *)
(*                                                                         *)
(* Coordinates are integers in units of 1e-4 m, so that rounding to three  *)
(* decimals is rounding to a multiple of 10.  Time gaps are in ms.         *)
(***************************************************************************)
EXTENDS Integers, Sequences, FiniteSets, TLC

(***************************************************************************)
(* Bounds of the model.                                                    *)
(***************************************************************************)
MaxInputQ == 1       \* operator lines waiting in input_q
MaxArrivals == 4     \* tracked controller setpoints the router has timed
MaxInjectors == 2    \* injector threads that can be represented at once
MaxRepeat == 3       \* repeats the raw observer counts
MaxClients == 3      \* websocket clients that can be connected at once

(***************************************************************************)
(* Program constants.                                                      *)
(***************************************************************************)
DEFAULT_INJECT_HZ == 10
WINDOW_CAP == 40
MIN_SAMPLES == 3

CONTROLLER_IP == "10.0.0.1"
PX4_IP == "10.0.0.2"
OTHER_IP == "10.0.0.9"

TRACKED == {"SET_POSITION_TARGET_LOCAL_NED", "POSITION_TARGET_LOCAL_NED"}

(***************************************************************************)
(* Values.                                                                 *)
(***************************************************************************)
NoSig == <<>>
NoHz == <<>>

RECURSIVE GCD(_, _)
GCD(a, b) == IF b = 0 THEN a ELSE GCD(b, a % b)

\* A rate n/d per second as a reduced fraction.
Hz(n, d) == LET g == GCD(n, d) IN <<n \div g, d \div g>>

\* round(float(v), 3) on a value held in units of 1e-4.  No value used below
\* lies halfway between two multiples of 10, where Python rounds to even.
Round3(v) == IF v >= 0 THEN ((v + 5) \div 10) * 10
                       ELSE -(((-v) + 5) \div 10) * 10

\* The frames a datagram can carry.  ok = FALSE is a byte run pymavlink
\* cannot turn into a message.  Every frame is whole: a frame split over two
\* datagrams, which the parser would keep between calls, is not modelled.
Frame(ok, type, x, y, z, yaw) ==
    [ok |-> ok, type |-> type, x |-> x, y |-> y, z |-> z, yaw |-> yaw]

JunkFrame == Frame(FALSE, "", 0, 0, 0, 0)
Heartbeat == Frame(TRUE, "HEARTBEAT", 0, 0, 0, 0)
LocalPos == Frame(TRUE, "LOCAL_POSITION_NED", 10000, 20000, -30000, 0)
SetpointA == Frame(TRUE, "SET_POSITION_TARGET_LOCAL_NED", 10000, 20000, -30000, 0)
SetpointB == Frame(TRUE, "SET_POSITION_TARGET_LOCAL_NED", 50000, 20000, -30000, 0)

Datagram(src, payload) == [src |-> src, payload |-> payload]

NoDatagram == Datagram("", <<>>)

ControllerDatagrams ==
    { Datagram(CONTROLLER_IP, p) :
        p \in { <<JunkFrame>>, <<Heartbeat>>, <<SetpointA>>, <<SetpointB, Heartbeat>> } }

Datagrams ==
    ControllerDatagrams
      \cup { Datagram(PX4_IP, <<LocalPos>>), Datagram(OTHER_IP, <<SetpointB>>) }

\* What the operator can type: one line of text.
Line(k, v) == [k |-> k, v |-> v]

\* The number typed differs from every coordinate of the setpoints above, and
\* from SetpointA's x by less than the three decimals the signature keeps.
Lines == { Line("blank", 0), Line("stop", 0), Line("quit", 0),
           Line("junk", 0), Line("num", 10004) }

\* float(s): the number a numeric line holds; every other line raises.
ParseFloat(line) ==
    IF line.k = "num" THEN [ok |-> TRUE, v |-> line.v] ELSE [ok |-> FALSE, v |-> 0]

(***************************************************************************)
(* Pure functions of src/mitm.py.                                          *)
(***************************************************************************)
Message(f) == [type |-> f.type, x |-> f.x, y |-> f.y, z |-> f.z, yaw |-> f.yaw]

NoMessage == [type |-> "", x |-> 0, y |-> 0, z |-> 0, yaw |-> 0]

RECURSIVE parse_datagram(_)
parse_datagram(data) ==
    IF data = <<>> THEN <<>>
    ELSE IF Head(data).ok
         THEN <<Message(Head(data))>> \o parse_datagram(Tail(data))
         ELSE parse_datagram(Tail(data))

\* for m in msgs[::-1]: the last tracked message, NoMessage when there is none.
FindSetpoint(msgs) ==
    LET idx == { i \in 1..Len(msgs) : msgs[i].type \in TRACKED }
    IN IF idx = {} THEN NoMessage
       ELSE msgs[CHOOSE i \in idx : \A j \in idx : j <= i]

msg_sig(m) ==
    IF m.type \in TRACKED
    THEN <<m.type, Round3(m.x), Round3(m.y), Round3(-m.z), Round3(m.yaw)>>
    ELSE <<m.type>>

RECURSIVE SumSeq(_)
SumSeq(s) == IF s = <<>> THEN 0 ELSE Head(s) + SumSeq(Tail(s))

\* The window never evicts: a full window drops the new gap.
PushIntervalKeepOldest(iv, gap) ==
    IF Len(iv) >= WINDOW_CAP THEN iv ELSE Append(iv, gap)

\* intervals.append(now - last_setpoint_time); pop(0) past the capacity.
PushInterval(iv, gap) ==
    LET a == Append(iv, gap)
    IN IF Len(a) > WINDOW_CAP THEN Tail(a) ELSE a

\* The estimate taken from two intervals already.
LearnHzFromTwo(iv, prev) ==
    IF Len(iv) >= 2 /\ SumSeq(iv) > 0
    THEN Hz(1000 * Len(iv), SumSeq(iv))
    ELSE prev

\* learned_hz = 1.0 / avg once three intervals are held and avg > 0.
LearnHz(iv, prev) ==
    IF Len(iv) >= MIN_SAMPLES /\ SumSeq(iv) > 0
    THEN Hz(1000 * Len(iv), SumSeq(iv))
    ELSE prev

(***************************************************************************)
(* State of src/mitm.py.                                                   *)
(***************************************************************************)
VARIABLES
    pc,                     \* where the main thread is
    input_q,                \* operator lines put by stdin_reader
    last_sig,
    last_setpoint_time,     \* 0 until the first tracked setpoint, then 1 (> 0)
    intervals,
    learned_hz,
    taking_over,
    inject_thread,          \* slot of the last thread started, 0 for None
    inject,                 \* inject_template, inject_alt, inject_hz
    taken_sig,              \* history: signature of the setpoint last overridden
    stop_event,
    threads,                \* the injector threads
    current_control_signal,
    cur,                    \* the datagram being handled and the answers so far
    out,                    \* the sendto calls of the last step
    ev,                     \* what the last step did to a datagram
    \* src/backend/main.py
    LAST_PACKET,
    LAST_POS,
    LAST_POS_REPEAT,
    bk_msg,                 \* the message the last step scheduled for broadcast
    bk_out,                 \* the sendto calls of the last forwarder step
    seen_last,              \* history: the position observed last
    seen_run,               \* history: how often it has been observed again since
    seen_prev_run,          \* history: the same count for the position before it
    seen_pkt,               \* history: the position packet observed last
    workers,                \* the three worker threads on_startup starts
    app_pc,                 \* where the web application is
    frame,                  \* the bytes of the Ethernet frame captured last
    frame_desc,             \* history: how that frame was put together
    parsed,                 \* what parse_ethernet_ipv4_udp returned for it
    connected_clients,
    broken,                 \* connected clients whose peer is gone: a send raises
    bcast,                  \* the broadcast_message coroutine in progress
    \* the two decoders
    rx,                     \* the datagram payload decoded last, as sent
    rx_msgs,                \* what parse_datagram returned for it
    rx_mav,                 \* what parse_mavlink_bytes returned for it
    \* the frequency estimator
    arrivals,               \* history: tracked setpoints timed so far
    gap_log,                \* history: every gap measured, oldest first
    \* the router and one injector, statement by statement
    takeover_lock,          \* the thread inside 'with takeover_lock', or "free"
    at,                     \* the statement the main thread is at
    inj_at,                 \* the statement the injector thread is at
    sig,                    \* the signature of the setpoint being handled
    access,                 \* the shared variables the last statement touched
    \* the capture thread pushing changes to the subscribers
    to_schedule,            \* the packet stored whose broadcast is not scheduled yet
    ready,                  \* the broadcast coroutines scheduled and not started
    tasks,                  \* the broadcast coroutines started and not finished
    conn,                   \* where each subscriber's ws_parse handler is
    loop_busy,              \* the subscriber whose handler is running, 0 for none
    delivered,              \* history: the packets sent to each subscriber
    added_at                \* history: the changes stored when it was added

vars == <<pc, input_q, last_sig, last_setpoint_time, intervals,
          learned_hz, taking_over, inject_thread, inject, taken_sig, stop_event, threads,
          current_control_signal, cur, out, ev,
          LAST_PACKET, LAST_POS, LAST_POS_REPEAT, bk_msg, bk_out,
          seen_last, seen_run, seen_prev_run, seen_pkt, workers, app_pc,
          frame, frame_desc, parsed, connected_clients, broken, bcast,
          rx, rx_msgs, rx_mav, arrivals, gap_log,
          takeover_lock, at, inj_at, sig, access,
          to_schedule, ready, tasks, conn, loop_busy, delivered, added_at>>

mitm == <<pc, input_q, last_sig, last_setpoint_time, intervals,
          learned_hz, taking_over, inject_thread, inject, taken_sig, stop_event, threads,
          current_control_signal, cur, out, ev>>

observer == <<LAST_PACKET, LAST_POS, LAST_POS_REPEAT, seen_last, seen_run,
              seen_prev_run, seen_pkt>>

startup == <<workers, app_pc>>

demux == <<frame, frame_desc, parsed>>

ws == <<connected_clients, broken, bcast>>

codec == <<rx, rx_msgs, rx_mav>>

\* The parts of the state that are exercised on their own.
estimator == <<arrivals, gap_log>>

locking == <<takeover_lock, at, inj_at, sig, access>>

push == <<to_schedule, ready, tasks, conn, loop_busy, delivered, added_at>>

units == <<codec, estimator, locking, push>>

backend == <<observer, bk_msg, bk_out, startup, demux, ws, units>>

Slots == 1..MaxInjectors

DeadThread == [pc |-> "dead", x |-> 0, y |-> 0, yaw |-> 0, alt |-> 0, hz |-> NoHz]

NoCur == [data |-> NoDatagram, found |-> NoMessage, new_x |-> 0, new_y |-> 0]

NoInject == [x |-> 0, y |-> 0, yaw |-> 0, alt |-> 0, hz |-> Hz(DEFAULT_INJECT_HZ, 1)]

NoEv == [what |-> "-", data |-> NoDatagram]

Ev(what, data) == [what |-> what, data |-> data]

Send(to, origin, payload) == [to |-> to, origin |-> origin, payload |-> payload]

Alive(i) == threads[i].pc # "dead"

AliveThreads == { i \in Slots : Alive(i) }

Arrived == IF last_setpoint_time = 0 THEN 0 ELSE Len(intervals) + 1

Gaps == {50}

(***************************************************************************)
(* src/backend/main.py: the raw observer and the two forwarders.           *)
(***************************************************************************)
UDP_PORT == 14556
TARGET_IP == PX4_IP

\* t_raw, t_fwd1, t_fwd2
Workers == {"raw", "fwd1", "fwd2"}

Clients == 1..MaxClients

\* No broadcast_message coroutine has run yet.
NoBroadcast == [pc |-> "idle", msg |-> "-", start |-> {}, todo |-> {},
                sent |-> {}, dead_clients |-> {}]

\* Python's None as the result of parse_ethernet_ipv4_udp.
None == <<>>

NoDesc == [eth_type |-> 0, ihl |-> 0, options |-> 0, proto |-> 0, udp_len |-> 0,
           payload |-> <<>>, keep |-> 0]

NoPos == <<>>
NoPacket == [src_ip |-> "", dst_port |-> 0, app |-> <<>>]
NoMsg == [type |-> "-", repeat |-> 0, position |-> NoPos]

BackendInit ==
    /\ LAST_PACKET = NoPacket
    /\ LAST_POS = NoPos
    /\ LAST_POS_REPEAT = 0
    /\ bk_msg = NoMsg
    /\ bk_out = <<>>
    /\ seen_last = NoPos
    /\ seen_run = 0
    /\ seen_prev_run = 0
    /\ seen_pkt = NoPacket
    /\ workers = [w \in Workers |-> "none"]
    /\ app_pc = "startup"
    /\ frame = <<>>
    /\ frame_desc = NoDesc
    /\ parsed = None
    /\ connected_clients = {}
    /\ broken = {}
    /\ bcast = NoBroadcast

NoMav == [is_mavlink |-> FALSE, message_count |-> 0, messages |-> <<>>]

CodecInit ==
    /\ rx = <<>>
    /\ rx_msgs = <<>>
    /\ rx_mav = NoMav

EstimatorInit ==
    /\ arrivals = 0
    /\ gap_log = <<>>

LockingInit ==
    /\ takeover_lock = "free"
    /\ at = "poll"
    /\ inj_at = "none"
    /\ sig = NoSig
    /\ access = {}

MaxChanges == 2      \* position changes the capture thread stores
MaxSubscribers == 1  \* websocket clients that connect while it does

Subscribers == 1..MaxSubscribers

PushInit ==
    /\ to_schedule = NoPacket
    /\ ready = <<>>
    /\ tasks = {}
    /\ conn = [c \in Subscribers |-> "none"]
    /\ loop_busy = 0
    /\ delivered = [c \in Subscribers |-> <<>>]
    /\ added_at = [c \in Subscribers |-> 0]

UnitsInit == CodecInit /\ EstimatorInit /\ LockingInit /\ PushInit

MitmInit ==
    /\ pc = "poll"
    /\ input_q = <<>>
    /\ last_sig = NoSig
    /\ last_setpoint_time = 0
    /\ intervals = <<>>
    /\ learned_hz = NoHz
    /\ taking_over = FALSE
    /\ inject_thread = 0
    /\ inject = NoInject
    /\ taken_sig = NoSig
    /\ stop_event = FALSE
    /\ threads = [i \in Slots |-> DeadThread]
    /\ current_control_signal = [x |-> 0, y |-> 0, z |-> 0]
    /\ cur = NoCur
    /\ out = <<>>
    /\ ev = NoEv


Running == pc \notin {"exited", "crashed"}

(***************************************************************************)
(* The operator's terminal.                                                *)
(***************************************************************************)
\* stdin_reader: cmd = input().strip(); input_q.put(cmd)
stdin_reader(line) ==
    /\ Running
    /\ Len(input_q) < MaxInputQ
    /\ input_q' = Append(input_q, line)
    /\ out' = <<>>
    /\ ev' = NoEv
    /\ UNCHANGED backend
    /\ UNCHANGED <<pc, last_sig, last_setpoint_time, intervals, learned_hz,
                   taking_over, inject_thread, inject, taken_sig, stop_event, threads,
                   current_control_signal, cur>>

(***************************************************************************)
(* main(): the command poll at the top of the loop.                        *)
(***************************************************************************)
\* One turn of the inner `while True: cmd = input_q.get_nowait()` loop.
PollStop ==
    /\ pc = "poll"
    /\ input_q # <<>>
    /\ Head(input_q).k = "stop"
    /\ input_q' = Tail(input_q)
    /\ taking_over' = FALSE
    /\ out' = <<>>
    /\ ev' = Ev("Stop", NoDatagram)
    /\ UNCHANGED backend
    /\ UNCHANGED <<pc, last_sig, last_setpoint_time, intervals, learned_hz,
                   inject_thread, inject, taken_sig, stop_event, threads,
                   current_control_signal, cur>>

\* 'quit' returns from main(): the process ends and takes its daemon threads.
PollQuit ==
    /\ pc = "poll"
    /\ input_q # <<>>
    /\ Head(input_q).k = "quit"
    /\ input_q' = Tail(input_q)
    /\ pc' = "exited"
    /\ threads' = [i \in Slots |-> DeadThread]
    /\ out' = <<>>
    /\ ev' = NoEv
    /\ UNCHANGED backend
    /\ UNCHANGED <<last_sig, last_setpoint_time, intervals, learned_hz,
                   taking_over, inject_thread, inject, taken_sig, stop_event,
                   current_control_signal, cur>>

\* The poll ends: the queue is empty, or its head is any other line, which
\* is put back at the head (input_q.queue.appendleft(cmd); break).
PollDone ==
    IF input_q = <<>> THEN TRUE ELSE Head(input_q).k \notin {"stop", "quit"}

(***************************************************************************)
(* main(): select and the handling of one datagram.  The datagram read is  *)
(* any one the network can deliver to either socket; the branch taken      *)
(* depends on its source address only, so the two sockets are not told     *)
(* apart and each turn of the loop handles one datagram.                   *)
(***************************************************************************)
\* select(sockets, [], [], 0.1) returns nothing.
SelectTimeout ==
    /\ pc = "poll"
    /\ PollDone
    /\ out' = <<>>
    /\ ev' = Ev("Timeout", NoDatagram)
    /\ UNCHANGED backend
    /\ UNCHANGED <<pc, input_q, last_sig, last_setpoint_time, intervals,
                   learned_hz, taking_over, inject_thread, inject, taken_sig, stop_event,
                   threads, current_control_signal, cur>>

\* The frequency estimator, run on every tracked controller setpoint.
RecordArrival(gap) ==
    /\ intervals' = IF last_setpoint_time > 0
                    THEN PushInterval(intervals, gap) ELSE intervals
    /\ learned_hz' = IF last_setpoint_time > 0
                     THEN LearnHz(PushInterval(intervals, gap), learned_hz)
                     ELSE learned_hz
    /\ last_setpoint_time' = 1

\* if sig != last_sig: the new value is stored and the operator is asked.
RecvSetpointNew(d) ==
    /\ pc = "poll"
    /\ PollDone
    /\ d.src = CONTROLLER_IP
    /\ Arrived < MaxArrivals
    /\ LET found == FindSetpoint(parse_datagram(d.payload))
       IN /\ found # NoMessage
          /\ msg_sig(found) # last_sig
          /\ \E gap \in Gaps : RecordArrival(gap)
          /\ ev' = Ev(IF last_sig = NoSig THEN "FirstSeen" ELSE "Changed", d)
          /\ last_sig' = msg_sig(found)
          /\ cur' = [data |-> d, found |-> found, new_x |-> found.x, new_y |-> found.y]
    /\ pc' = "ask_x"
    /\ out' = <<>>
    /\ UNCHANGED backend
    /\ UNCHANGED <<input_q, taking_over, inject_thread, inject, taken_sig, stop_event,
                   threads, current_control_signal>>

\* The repeat forwarded without looking at taking_over.
ForwardRepeatedAlways(d) == <<Send(PX4_IP, d.src, d.payload)>>

\* else: with takeover_lock: if not taking_over: sendto(data, PX4)
ForwardRepeated(d) ==
    IF ~taking_over THEN <<Send(PX4_IP, d.src, d.payload)>> ELSE <<>>

RecvSetpointSame(d) ==
    /\ pc = "poll"
    /\ PollDone
    /\ d.src = CONTROLLER_IP
    /\ Arrived < MaxArrivals
    /\ LET found == FindSetpoint(parse_datagram(d.payload))
       IN /\ found # NoMessage
          /\ msg_sig(found) = last_sig
          /\ \E gap \in Gaps : RecordArrival(gap)
    /\ ev' = Ev("Repeated", d)
    /\ out' = ForwardRepeated(d)
    /\ UNCHANGED backend
    /\ UNCHANGED <<pc, input_q, last_sig, taking_over, inject_thread, inject, taken_sig,
                   stop_event, threads, current_control_signal, cur>>

\* A datagram that yields no message at all is dropped.
ForwardUntrackedDecoded(d) ==
    IF parse_datagram(d.payload) = <<>> THEN <<>> ELSE <<Send(PX4_IP, d.src, d.payload)>>

\* The untracked datagram held back while a takeover is active.
ForwardUntrackedGated(d) ==
    IF ~taking_over THEN <<Send(PX4_IP, d.src, d.payload)>> ELSE <<>>

\* found is None: the datagram goes to the vehicle as it came.
ForwardUntracked(d) == <<Send(PX4_IP, d.src, d.payload)>>

RecvUntracked(d) ==
    /\ pc = "poll"
    /\ PollDone
    /\ d.src = CONTROLLER_IP
    /\ FindSetpoint(parse_datagram(d.payload)) = NoMessage
    /\ ev' = Ev("Untracked", d)
    /\ out' = ForwardUntracked(d)
    /\ UNCHANGED backend
    /\ UNCHANGED <<pc, input_q, last_sig, last_setpoint_time, intervals,
                   learned_hz, taking_over, inject_thread, inject, taken_sig, stop_event,
                   threads, current_control_signal, cur>>

\* The vehicle's datagram treated like one from an unknown source.
ForwardVehicleBothWays(d) ==
    <<Send(PX4_IP, d.src, d.payload), Send(CONTROLLER_IP, d.src, d.payload)>>

\* elif src == PX4_IP: to the controller's telemetry port.
ForwardVehicle(d) == <<Send(CONTROLLER_IP, d.src, d.payload)>>

RecvVehicle(d) ==
    /\ pc = "poll"
    /\ PollDone
    /\ d.src # CONTROLLER_IP
    /\ d.src = PX4_IP
    /\ ev' = Ev("Vehicle", d)
    /\ out' = ForwardVehicle(d)
    /\ UNCHANGED backend
    /\ UNCHANGED <<pc, input_q, last_sig, last_setpoint_time, intervals,
                   learned_hz, taking_over, inject_thread, inject, taken_sig, stop_event,
                   threads, current_control_signal, cur>>

\* else: to the vehicle, then to the controller; the second send is skipped
\* when the first one raises.
ForwardOther(d, firstFails) ==
    IF firstFails
    THEN <<Send(PX4_IP, d.src, d.payload)>>
    ELSE <<Send(PX4_IP, d.src, d.payload), Send(CONTROLLER_IP, d.src, d.payload)>>

RecvOther(d) ==
    /\ pc = "poll"
    /\ PollDone
    /\ d.src # CONTROLLER_IP
    /\ d.src # PX4_IP
    /\ ev' = Ev("Other", d)
    /\ \E firstFails \in BOOLEAN : out' = ForwardOther(d, firstFails)
    /\ UNCHANGED backend
    /\ UNCHANGED <<pc, input_q, last_sig, last_setpoint_time, intervals,
                   learned_hz, taking_over, inject_thread, inject, taken_sig, stop_event,
                   threads, current_control_signal, cur>>

(***************************************************************************)
(* main(): the three prompts.  get_user_input blocks in input_q.get().     *)
(***************************************************************************)
\* float(s) if s else original
Answer(line, original) ==
    IF line.k = "blank" THEN [ok |-> TRUE, v |-> original] ELSE ParseFloat(line)

AskX ==
    /\ pc = "ask_x"
    /\ input_q # <<>>
    /\ Answer(Head(input_q), cur.found.x).ok
    /\ cur' = [cur EXCEPT !.new_x = Answer(Head(input_q), cur.found.x).v]
    /\ input_q' = Tail(input_q)
    /\ pc' = "ask_y"
    /\ out' = <<>>
    /\ ev' = NoEv
    /\ UNCHANGED backend
    /\ UNCHANGED <<last_sig, last_setpoint_time, intervals, learned_hz,
                   taking_over, inject_thread, inject, taken_sig, stop_event, threads,
                   current_control_signal>>

AskY ==
    /\ pc = "ask_y"
    /\ input_q # <<>>
    /\ Answer(Head(input_q), cur.found.y).ok
    /\ cur' = [cur EXCEPT !.new_y = Answer(Head(input_q), cur.found.y).v]
    /\ input_q' = Tail(input_q)
    /\ pc' = "ask_alt"
    /\ out' = <<>>
    /\ ev' = NoEv
    /\ UNCHANGED backend
    /\ UNCHANGED <<last_sig, last_setpoint_time, intervals, learned_hz,
                   taking_over, inject_thread, inject, taken_sig, stop_event, threads,
                   current_control_signal>>

\* float() raises ValueError on the line.  Nothing in main() catches it (the
\* only handler is for KeyboardInterrupt): main() ends, and the process with
\* its daemon threads.
AskInvalid ==
    /\ pc \in {"ask_x", "ask_y", "ask_alt"}
    /\ input_q # <<>>
    /\ ~Answer(Head(input_q), 0).ok
    /\ input_q' = Tail(input_q)
    /\ pc' = "crashed"
    /\ threads' = [i \in Slots |-> DeadThread]
    /\ out' = <<>>
    /\ ev' = Ev("Invalid", cur.data)
    /\ UNCHANGED backend
    /\ UNCHANGED <<last_sig, last_setpoint_time, intervals, learned_hz,
                   taking_over, inject_thread, inject, taken_sig, stop_event,
                   current_control_signal, cur>>

\* changed = new_x != x or new_y != y or new_alt != alt
Changed(new_x, new_y, new_alt, m) ==
    new_x # m.x \/ new_y # m.y \/ new_alt # -m.z

\* if changed: the takeover is armed (taking_over = True under the lock).
AskAltTakeover ==
    /\ pc = "ask_alt"
    /\ input_q # <<>>
    /\ Answer(Head(input_q), -cur.found.z).ok
    /\ LET new_alt == Answer(Head(input_q), -cur.found.z).v
       IN /\ Changed(cur.new_x, cur.new_y, new_alt, cur.found)
          /\ inject' = [x |-> cur.new_x, y |-> cur.new_y, yaw |-> cur.found.yaw,
                        alt |-> new_alt,
                        hz |-> IF learned_hz # NoHz THEN learned_hz
                               ELSE Hz(DEFAULT_INJECT_HZ, 1)]
    /\ taken_sig' = msg_sig(cur.found)
    /\ taking_over' = TRUE
    /\ input_q' = Tail(input_q)
    /\ pc' = "chk_alive"
    /\ cur' = NoCur
    /\ out' = <<>>
    /\ ev' = Ev("Takeover", cur.data)
    /\ UNCHANGED backend
    /\ UNCHANGED <<last_sig, last_setpoint_time, intervals, learned_hz,
                   inject_thread, stop_event, threads, current_control_signal>>

\* else: "No change, forwarding original data."
ForwardKept(d) == <<Send(PX4_IP, d.src, d.payload)>>

AskAltKeep ==
    /\ pc = "ask_alt"
    /\ input_q # <<>>
    /\ Answer(Head(input_q), -cur.found.z).ok
    /\ ~Changed(cur.new_x, cur.new_y, Answer(Head(input_q), -cur.found.z).v, cur.found)
    /\ input_q' = Tail(input_q)
    /\ pc' = "poll"
    /\ out' = ForwardKept(cur.data)
    /\ ev' = Ev("Kept", cur.data)
    /\ cur' = NoCur
    /\ UNCHANGED backend
    /\ UNCHANGED <<last_sig, last_setpoint_time, intervals, learned_hz,
                   taking_over, inject_thread, inject, taken_sig, stop_event, threads,
                   current_control_signal>>

(***************************************************************************)
(* main(): replacing the injector thread.                                  *)
(***************************************************************************)
\* The is_alive() test left out: the replacement is started without looking
\* at the old thread.
PreviousAliveIgnored == FALSE

\* if inject_thread and inject_thread.is_alive():
PreviousAlive == inject_thread # 0 /\ Alive(inject_thread)

\* stop_event.set(), then inject_thread.join() is entered
SignalPrevious ==
    /\ pc = "chk_alive"
    /\ PreviousAlive
    /\ stop_event' = TRUE
    /\ pc' = "join"
    /\ out' = <<>>
    /\ ev' = NoEv
    /\ UNCHANGED backend
    /\ UNCHANGED <<input_q, last_sig, last_setpoint_time, intervals,
                   learned_hz, taking_over, inject_thread, inject, taken_sig, threads,
                   current_control_signal, cur>>

NoPrevious ==
    /\ pc = "chk_alive"
    /\ ~PreviousAlive
    /\ pc' = "start"
    /\ out' = <<>>
    /\ ev' = NoEv
    /\ UNCHANGED backend
    /\ UNCHANGED <<input_q, last_sig, last_setpoint_time, intervals,
                   learned_hz, taking_over, inject_thread, inject, taken_sig, stop_event,
                   threads, current_control_signal, cur>>

\* inject_thread.join() returns; stop_event.clear()
JoinPrevious ==
    /\ pc = "join"
    /\ ~Alive(inject_thread)
    /\ stop_event' = FALSE
    /\ pc' = "start"
    /\ out' = <<>>
    /\ ev' = NoEv
    /\ UNCHANGED backend
    /\ UNCHANGED <<input_q, last_sig, last_setpoint_time, intervals,
                   learned_hz, taking_over, inject_thread, inject, taken_sig, threads,
                   current_control_signal, cur>>

FreeSlots == { i \in Slots : ~Alive(i) }

\* inject_thread = threading.Thread(target=injector_loop, ...); start()
StartInjector ==
    /\ pc = "start"
    /\ FreeSlots # {}
    /\ LET i == CHOOSE k \in FreeSlots : \A j \in FreeSlots : k <= j
       IN /\ threads' = [threads EXCEPT ![i] =
                           [pc |-> "init", x |-> inject.x, y |-> inject.y,
                            yaw |-> inject.yaw, alt |-> inject.alt, hz |-> inject.hz]]
          /\ inject_thread' = i
    /\ pc' = "poll"
    /\ out' = <<>>
    /\ ev' = Ev("Started", NoDatagram)
    /\ UNCHANGED backend
    /\ UNCHANGED <<input_q, last_sig, last_setpoint_time, intervals,
                   learned_hz, taking_over, inject, taken_sig, stop_event,
                   current_control_signal, cur>>

(***************************************************************************)
(* injector_loop, one thread per slot.                                     *)
(***************************************************************************)
\* update_control_signal(x, y, alt_m); tx = mavlink_connection(...)
InjInit(i) ==
    /\ threads[i].pc = "init"
    /\ current_control_signal' = [x |-> threads[i].x, y |-> threads[i].y,
                                  z |-> threads[i].alt]
    /\ threads' = [threads EXCEPT ![i].pc = "top"]
    /\ out' = <<>>
    /\ ev' = NoEv
    /\ UNCHANGED backend
    /\ UNCHANGED <<pc, input_q, last_sig, last_setpoint_time, intervals,
                   learned_hz, taking_over, inject_thread, inject, taken_sig, stop_event, cur>>

\* if stop_event.is_set(): break
InjCheckStop(i) ==
    /\ threads[i].pc = "top"
    /\ threads' = [threads EXCEPT ![i] = IF stop_event THEN DeadThread
                                         ELSE [@ EXCEPT !.pc = "chk"]]
    /\ out' = <<>>
    /\ ev' = NoEv
    /\ UNCHANGED backend
    /\ UNCHANGED <<pc, input_q, last_sig, last_setpoint_time, intervals,
                   learned_hz, taking_over, inject_thread, inject, taken_sig, stop_event,
                   current_control_signal, cur>>

\* with takeover_lock: if not taking_over: break
InjCheckTakeover(i) ==
    /\ threads[i].pc = "chk"
    /\ threads' = [threads EXCEPT ![i] = IF ~taking_over THEN DeadThread
                                         ELSE [@ EXCEPT !.pc = "send"]]
    /\ out' = <<>>
    /\ ev' = NoEv
    /\ UNCHANGED backend
    /\ UNCHANGED <<pc, input_q, last_sig, last_setpoint_time, intervals,
                   learned_hz, taking_over, inject_thread, inject, taken_sig, stop_event,
                   current_control_signal, cur>>

\* The frame set_position_target_local_ned_send builds: z = -alt_m.
InjectedFrame(t) ==
    Frame(TRUE, "SET_POSITION_TARGET_LOCAL_NED", t.x, t.y, -t.alt, t.yaw)

\* A send that raises ends the thread.
AfterSendFatal(t, fails) == IF fails THEN DeadThread ELSE [t EXCEPT !.pc = "top"]

\* except Exception as e: print("[INJ] send err", e), and on to the sleep.
AfterSend(t, fails) == [t EXCEPT !.pc = "top"]

\* tx.mav.set_position_target_local_ned_send(...), a raise is printed and
\* swallowed; time.sleep(period)
InjSend(i) ==
    /\ threads[i].pc = "send"
    /\ \E fails \in BOOLEAN :
         /\ out' = IF fails THEN <<>>
                   ELSE <<Send(PX4_IP, "injector", <<InjectedFrame(threads[i])>>)>>
         /\ threads' = [threads EXCEPT ![i] = AfterSend(@, fails)]
    /\ ev' = NoEv
    /\ UNCHANGED backend
    /\ UNCHANGED <<pc, input_q, last_sig, last_setpoint_time, intervals,
                   learned_hz, taking_over, inject_thread, inject, taken_sig, stop_event,
                   current_control_signal, cur>>

(***************************************************************************)
(* The control plane of src/mitm.py.  get_control_signal returns           *)
(* current_control_signal as it is.                                        *)
(***************************************************************************)
\* What a client can submit.
ControlSignals == { [x |-> 0, y |-> 0, z |-> 0] }

\* POST /set_control_signal/: current_control_signal = control_signal
set_control_signal(control_signal) ==
    /\ Running
    /\ current_control_signal' = control_signal
    /\ out' = <<>>
    /\ ev' = NoEv
    /\ UNCHANGED backend
    /\ UNCHANGED <<pc, input_q, last_sig, last_setpoint_time, intervals,
                   learned_hz, taking_over, inject_thread, inject, taken_sig,
                   stop_event, threads, cur>>

Next ==
    \/ \E line \in Lines : stdin_reader(line)
    \/ \E control_signal \in ControlSignals : set_control_signal(control_signal)
    \/ PollStop
    \/ PollQuit
    \/ SelectTimeout
    \/ \E d \in Datagrams : RecvSetpointNew(d)
    \/ \E d \in Datagrams : RecvSetpointSame(d)
    \/ \E d \in Datagrams : RecvUntracked(d)
    \/ \E d \in Datagrams : RecvVehicle(d)
    \/ \E d \in Datagrams : RecvOther(d)
    \/ AskX
    \/ AskY
    \/ AskInvalid
    \/ AskAltTakeover
    \/ AskAltKeep
    \/ SignalPrevious
    \/ NoPrevious
    \/ JoinPrevious
    \/ StartInjector
    \/ \E i \in Slots : InjInit(i)
    \/ \E i \in Slots : InjCheckStop(i)
    \/ \E i \in Slots : InjCheckTakeover(i)
    \/ \E i \in Slots : InjSend(i)

(***************************************************************************)
(* raw_worker: one captured UDP datagram, already demultiplexed and         *)
(* dispatched, is filtered and fed to the change detection.                *)
(***************************************************************************)
App(is_mavlink, msg_name, fields) ==
    [protocol |-> IF is_mavlink THEN "MAVLink" ELSE "Unknown",
     is_mavlink |-> is_mavlink, msg_name |-> msg_name, fields |-> fields]

Packet(src_ip, dst_port, app) == [src_ip |-> src_ip, dst_port |-> dst_port, app |-> app]

RawPackets ==
    { Packet(CONTROLLER_IP, UDP_PORT, App(TRUE, "SET_POSITION_TARGET_LOCAL_NED",
                                          [x |-> 10000, y |-> 20000, z |-> -30000])),
      Packet(CONTROLLER_IP, UDP_PORT, App(TRUE, "SET_POSITION_TARGET_LOCAL_NED",
                                          [x |-> 10004, y |-> 20000, z |-> -30000])),
      Packet(CONTROLLER_IP, UDP_PORT, App(TRUE, "SET_POSITION_TARGET_LOCAL_NED",
                                          [payload |-> [x |-> 50000, y |-> 20000, z |-> -30000]])),
      Packet(CONTROLLER_IP, UDP_PORT, App(TRUE, "POSITION_TARGET_LOCAL_NED",
                                          [x |-> 10000, y |-> 20000, z |-> -30000])),
      Packet(CONTROLLER_IP, UDP_PORT, App(TRUE, "SET_POSITION_TARGET_LOCAL_NED",
                                          [x |-> 10000, y |-> 20000, z |-> -30000,
                                           yaw |-> 15708])),
      Packet(CONTROLLER_IP, UDP_PORT, App(TRUE, "GLOBAL_POSITION_INT",
                                          [lat |-> 10000, lon |-> 20000, alt |-> 30000])),
      Packet(CONTROLLER_IP, UDP_PORT, App(TRUE, "HEARTBEAT", [x |-> 10000, y |-> 20000, z |-> -30000])),
      Packet(CONTROLLER_IP, UDP_PORT, App(FALSE, "", [x |-> 10000, y |-> 20000, z |-> -30000])),
      Packet(CONTROLLER_IP, 14557, App(TRUE, "SET_POSITION_TARGET_LOCAL_NED",
                                       [x |-> 50000, y |-> 20000, z |-> -30000])),
      Packet(PX4_IP, UDP_PORT, App(TRUE, "LOCAL_POSITION_NED",
                                   [x |-> 50000, y |-> 20000, z |-> -30000])) }

\* The position taken as it is, without round(float(v), 3).
extract_xyz_unrounded(app) ==
    IF app.msg_name \notin {"SET_POSITION_TARGET_LOCAL_NED", "POSITION_TARGET_LOCAL_NED",
                            "LOCAL_POSITION_NED", "GLOBAL_POSITION_INT"}
    THEN NoPos
    ELSE LET f == IF "payload" \in DOMAIN app.fields THEN app.fields.payload
                  ELSE app.fields
         IN IF {"x", "y", "z"} \subseteq DOMAIN f
            THEN <<f.x, f.y, f.z>>
            ELSE NoPos

extract_xyz_from_app(app) ==
    IF app.msg_name \notin {"SET_POSITION_TARGET_LOCAL_NED", "POSITION_TARGET_LOCAL_NED",
                            "LOCAL_POSITION_NED", "GLOBAL_POSITION_INT"}
    THEN NoPos
    ELSE LET f == IF "payload" \in DOMAIN app.fields THEN app.fields.payload
                  ELSE app.fields
         IN IF {"x", "y", "z"} \subseteq DOMAIN f
            THEN <<Round3(f.x), Round3(f.y), Round3(f.z)>>
            ELSE NoPos

\* The filters in front of the change detection (each one is a `continue`).
RawAccepted(pkt) ==
    /\ pkt.dst_port = UDP_PORT
    /\ pkt.src_ip = CONTROLLER_IP
    /\ pkt.app.protocol = "MAVLink" /\ pkt.app.is_mavlink
    /\ extract_xyz_from_app(pkt.app) # NoPos

\* The repeat branch recording its packet as LAST_PACKET like the other two.
ObserveStoreAlways(last_pos, last_repeat, xyz) ==
    IF last_pos = NoPos
    THEN [pos |-> xyz, repeat |-> 0, store |-> TRUE,
          msg |-> [type |-> "packet", repeat |-> last_repeat, position |-> xyz]]
    ELSE IF xyz = last_pos
    THEN [pos |-> last_pos, repeat |-> last_repeat + 1, store |-> TRUE,
          msg |-> [type |-> "none", repeat |-> last_repeat + 1, position |-> last_pos]]
    ELSE [pos |-> xyz, repeat |-> 0, store |-> TRUE,
          msg |-> [type |-> "packet", repeat |-> last_repeat, position |-> xyz]]

\* The repeat branch sending a full 'packet' message like the other two.
ObserveAlwaysPacket(last_pos, last_repeat, xyz) ==
    IF last_pos = NoPos
    THEN [pos |-> xyz, repeat |-> 0, store |-> TRUE,
          msg |-> [type |-> "packet", repeat |-> last_repeat, position |-> xyz]]
    ELSE IF xyz = last_pos
    THEN [pos |-> last_pos, repeat |-> last_repeat + 1, store |-> FALSE,
          msg |-> [type |-> "packet", repeat |-> last_repeat + 1, position |-> last_pos]]
    ELSE [pos |-> xyz, repeat |-> 0, store |-> TRUE,
          msg |-> [type |-> "packet", repeat |-> last_repeat, position |-> xyz]]

\* The change branch without `LAST_POS_REPEAT = 0`.
ObserveNoReset(last_pos, last_repeat, xyz) ==
    IF last_pos # NoPos /\ xyz = last_pos
    THEN [pos |-> last_pos, repeat |-> last_repeat + 1, store |-> FALSE,
          msg |-> [type |-> "none", repeat |-> last_repeat + 1, position |-> last_pos]]
    ELSE [pos |-> xyz, repeat |-> last_repeat, store |-> TRUE,
          msg |-> [type |-> "packet", repeat |-> last_repeat, position |-> xyz]]

\* with LOCK: the three branches on LAST_POS.  The result names the new
\* LAST_POS and LAST_POS_REPEAT, whether the packet becomes LAST_PACKET, and
\* the message handed to the event loop.
Observe(last_pos, last_repeat, xyz) ==
    IF last_pos = NoPos
    THEN [pos |-> xyz, repeat |-> 0, store |-> TRUE,
          msg |-> [type |-> "packet", repeat |-> last_repeat, position |-> xyz]]
    ELSE IF xyz = last_pos
    THEN [pos |-> last_pos, repeat |-> last_repeat + 1, store |-> FALSE,
          msg |-> [type |-> "none", repeat |-> last_repeat + 1, position |-> last_pos]]
    ELSE [pos |-> xyz, repeat |-> 0, store |-> TRUE,
          msg |-> [type |-> "packet", repeat |-> last_repeat, position |-> xyz]]

RawObserve(pkt) ==
    /\ workers["raw"] = "bound"
    /\ RawAccepted(pkt)
    /\ LET xyz == extract_xyz_from_app(pkt.app)
           r == Observe(LAST_POS, LAST_POS_REPEAT, xyz)
       IN /\ xyz = LAST_POS => LAST_POS_REPEAT < MaxRepeat
          /\ LAST_POS' = r.pos
          /\ LAST_POS_REPEAT' = r.repeat
          /\ LAST_PACKET' = IF r.store THEN pkt ELSE LAST_PACKET
          /\ bk_msg' = r.msg
          /\ seen_last' = xyz
          /\ seen_run' = IF xyz = seen_last THEN seen_run + 1 ELSE 0
          /\ seen_prev_run' = IF xyz = seen_last THEN seen_prev_run ELSE seen_run
          /\ seen_pkt' = pkt
    /\ bk_out' = <<>>
    /\ UNCHANGED <<units, mitm, startup, demux, ws>>

RawSkip(pkt) ==
    /\ workers["raw"] = "bound"
    /\ ~RawAccepted(pkt)
    /\ bk_msg' = NoMsg
    /\ bk_out' = <<>>
    /\ UNCHANGED <<units, mitm, observer, startup, demux, ws>>

(***************************************************************************)
(* The two forwarders of src/backend/main.py.                              *)
(***************************************************************************)
\* if CONTROLLER_IP is not None and src_ip != CONTROLLER_IP: continue
ControllerForward(d) ==
    IF d.src # CONTROLLER_IP THEN <<>> ELSE <<Send(TARGET_IP, d.src, d.payload)>>

controller_forward_worker(d) ==
    /\ workers["fwd1"] = "bound"
    /\ bk_out' = ControllerForward(d)
    /\ bk_msg' = NoMsg
    /\ UNCHANGED <<units, mitm, observer, startup, demux, ws>>

\* Whatever reaches port 14557 goes to the controller.
Px4Forward(d) == <<Send(CONTROLLER_IP, d.src, d.payload)>>

px4_to_controller_forward_worker(d) ==
    /\ workers["fwd2"] = "bound"
    /\ bk_out' = Px4Forward(d)
    /\ bk_msg' = NoMsg
    /\ UNCHANGED <<units, mitm, observer, startup, demux, ws>>

(***************************************************************************)
(* on_startup and the first statements of the three workers: each worker   *)
(* creates and binds its socket inside its own thread.                     *)
(***************************************************************************)
\* The three Thread(...).start() calls; uvicorn then serves HTTP.
on_startup ==
    /\ app_pc = "startup"
    /\ workers' = [w \in Workers |-> "started"]
    /\ app_pc' = "serving"
    /\ UNCHANGED <<units, mitm, observer, bk_msg, bk_out, demux, ws>>

\* sock.bind(...) at the top of a worker.  When it raises, nothing catches
\* it: the thread ends, the other threads and the event loop go on.
WorkerBind(w, ok) ==
    /\ workers[w] = "started"
    /\ workers' = [workers EXCEPT ![w] = IF ok THEN "bound" ELSE "failed"]
    /\ UNCHANGED <<units, mitm, observer, bk_msg, bk_out, app_pc, demux, ws>>

\* GET /api/latest: with LOCK, 'no packet yet' or LAST_PACKET.to_dict().
get_latest ==
    IF LAST_PACKET = NoPacket
    THEN [ok |-> FALSE, packet |-> NoPacket]
    ELSE [ok |-> TRUE, packet |-> LAST_PACKET]

BackendNext ==
    \/ on_startup
    \/ \E w \in Workers, ok \in BOOLEAN : WorkerBind(w, ok)
    \/ \E pkt \in RawPackets : RawObserve(pkt)
    \/ \E pkt \in RawPackets : RawSkip(pkt)
    \/ \E d \in Datagrams : controller_forward_worker(d)
    \/ \E d \in Datagrams : px4_to_controller_forward_worker(d)

(***************************************************************************)
(* parse_ethernet_ipv4_udp of src/backend/main.py, on frames of bytes.     *)
(* Indices are 1-based: byte k of the Python frame is frame[k + 1].        *)
(***************************************************************************)
\* struct "!H": the 16-bit big-endian number at bytes i, i + 1.
U16(f, i) == f[i] * 256 + f[i + 1]

Hi(n) == (n \div 256) % 256
Lo(n) == n % 256

ETH_IPV4 == 2048     \* 0x0800
PROTO_UDP == 17

\* n zero bytes: the options of an IPv4 header.
Zeros(n) == [i \in 1..n |-> 0]

SRC_MAC == <<2, 0, 0, 0, 0, 1>>
DST_MAC == <<2, 0, 0, 0, 0, 2>>
SRC_ADDR == <<10, 0, 0, 1>>
DST_ADDR == <<10, 0, 0, 2>>
SRC_PORT == 40000

\* The bytes of an Ethernet frame: the IPv4 header declares `ihl` 32-bit
\* words and carries `options` words past its first five, the UDP header
\* declares `udp_len` bytes, and only the first `keep` bytes were captured.
BuildFrame(desc) ==
    LET eth == DST_MAC \o SRC_MAC \o <<Hi(desc.eth_type), Lo(desc.eth_type)>>
        total == 20 + 4 * desc.options + desc.udp_len
        ip == <<64 + desc.ihl, 0, Hi(total), Lo(total), 0, 0, 0, 0, 64, desc.proto, 0, 0>>
                \o SRC_ADDR \o DST_ADDR \o Zeros(4 * desc.options)
        udp == <<Hi(SRC_PORT), Lo(SRC_PORT), Hi(UDP_PORT), Lo(UDP_PORT),
                 Hi(desc.udp_len), Lo(desc.udp_len), 0, 0>>
        all == eth \o ip \o udp \o desc.payload
    IN SubSeq(all, 1, IF desc.keep < Len(all) THEN desc.keep ELSE Len(all))

Payloads == { <<>>, <<253, 9, 0, 0>> }

\* The frames the capture socket can hand over: IPv4 and IPv6 frames, UDP
\* and TCP, headers with and without options, header lengths that are right,
\* too large and below the minimum of five words, UDP length fields that are
\* right, too large and too small, and frames cut short.
FrameDescs ==
    [eth_type : {ETH_IPV4, 34525},
     ihl : {4, 5, 6, 15},
     options : {0, 1},
     proto : {PROTO_UDP, 6},
     udp_len : {8, 12, 108},
     payload : Payloads,
     keep : {10, 30, 40, 46, 100}]

\* The IHL nibble not read: the UDP header is looked for at the fixed offset
\* 34, behind a header of 20 bytes.
parse_fixed_header(f) ==
    IF Len(f) < 14 THEN None
    ELSE IF U16(f, 13) # ETH_IPV4 THEN None
    ELSE IF Len(f) < 14 + 20 THEN None
    ELSE IF f[24] # PROTO_UDP THEN None
    ELSE IF Len(f) < 34 + 8 THEN None
    ELSE [link |-> [protocol |-> "Ethernet", src_mac |-> SubSeq(f, 7, 12),
                    dst_mac |-> SubSeq(f, 1, 6), eth_type |-> U16(f, 13)],
          src_ip |-> SubSeq(f, 27, 30), src_port |-> U16(f, 35),
          dst_ip |-> SubSeq(f, 31, 34), dst_port |-> U16(f, 37),
          udp_payload |-> SubSeq(f, 43, Len(f))]

\* The addresses are kept as their four bytes (ip_to_str joins them with
\* dots) and the MAC addresses as their six.
parse_ethernet_ipv4_udp(f) ==
    IF Len(f) < 14 THEN None
    ELSE IF U16(f, 13) # ETH_IPV4 THEN None
    ELSE IF Len(f) < 14 + 20 THEN None
    ELSE LET ihl == (f[15] % 16) * 4
             udp_start == 14 + ihl
             payload_start == udp_start + 8
         IN IF Len(f) < 14 + ihl THEN None
            ELSE IF f[24] # PROTO_UDP THEN None
            ELSE IF Len(f) < udp_start + 8 THEN None
            ELSE IF Len(f) < payload_start THEN None
            ELSE [link |-> [protocol |-> "Ethernet", src_mac |-> SubSeq(f, 7, 12),
                            dst_mac |-> SubSeq(f, 1, 6), eth_type |-> U16(f, 13)],
                  src_ip |-> SubSeq(f, 27, 30), src_port |-> U16(f, udp_start + 1),
                  dst_ip |-> SubSeq(f, 31, 34), dst_port |-> U16(f, udp_start + 3),
                  udp_payload |-> SubSeq(f, payload_start + 1, Len(f))]

\* raw_worker: frame, addr = sock.recvfrom(65535); parsed = parse...(frame)
Capture(desc) ==
    /\ frame' = BuildFrame(desc)
    /\ frame_desc' = desc
    /\ parsed' = parse_ethernet_ipv4_udp(BuildFrame(desc))
    /\ UNCHANGED <<units, mitm, observer, bk_msg, bk_out, startup, ws>>

DemuxNext == \E desc \in FrameDescs : Capture(desc)

(***************************************************************************)
(* The websocket subscribers of src/backend/main.py: ws_parse and          *)
(* broadcast_message.  A coroutine gives way to the others at each await,  *)
(* so a broadcast is one step per ws.send_text.  One broadcast runs at a   *)
(* time.                                                                   *)
(***************************************************************************)
Msgs == {"packet", "none"}

\* ws_parse: await ws.accept(); connected_clients.add(ws)
ws_accept(c) ==
    /\ c \notin connected_clients
    /\ connected_clients' = connected_clients \cup {c}
    /\ UNCHANGED <<broken, bcast>>
    /\ UNCHANGED <<units, mitm, observer, bk_msg, bk_out, startup, demux>>

\* The peer of a connected client goes away.
PeerGone(c) ==
    /\ c \in connected_clients \ broken
    /\ broken' = broken \cup {c}
    /\ UNCHANGED <<connected_clients, bcast>>
    /\ UNCHANGED <<units, mitm, observer, bk_msg, bk_out, startup, demux>>

\* ws_parse: receive_text raises WebSocketDisconnect; finally: discard(ws)
ws_disconnect(c) ==
    /\ c \in connected_clients \cap broken
    /\ connected_clients' = connected_clients \ {c}
    /\ broken' = broken \ {c}
    /\ UNCHANGED bcast
    /\ UNCHANGED <<units, mitm, observer, bk_msg, bk_out, startup, demux>>

\* if not connected_clients: return; for ws in list(connected_clients):
broadcast_message(msg) ==
    /\ bcast.pc \in {"idle", "done"}
    /\ bcast' = [pc |-> IF connected_clients = {} THEN "done" ELSE "sending",
                 msg |-> msg, start |-> connected_clients,
                 todo |-> connected_clients, sent |-> {}, dead_clients |-> {}]
    /\ UNCHANGED <<connected_clients, broken>>
    /\ UNCHANGED <<units, mitm, observer, bk_msg, bk_out, startup, demux>>

\* The first send that raises ends the loop.
SendTextAbort(b, c, raises) ==
    IF raises
    THEN [b EXCEPT !.todo = {}, !.dead_clients = @ \cup {c}]
    ELSE [b EXCEPT !.todo = @ \ {c}, !.sent = @ \cup {c}]

\* try: await ws.send_text(text); except Exception: dead_clients.append(ws)
SendText(b, c, raises) ==
    IF raises
    THEN [b EXCEPT !.todo = @ \ {c}, !.dead_clients = @ \cup {c}]
    ELSE [b EXCEPT !.todo = @ \ {c}, !.sent = @ \cup {c}]

\* One turn of the loop.  A send to a client whose peer is gone, or whose
\* ws_parse has ended, raises.
BroadcastSend(c) ==
    /\ bcast.pc = "sending"
    /\ c \in bcast.todo
    /\ bcast' = SendText(bcast, c, c \in broken \/ c \notin connected_clients)
    /\ UNCHANGED <<connected_clients, broken>>
    /\ UNCHANGED <<units, mitm, observer, bk_msg, bk_out, startup, demux>>

\* for ws in dead_clients: connected_clients.discard(ws)
BroadcastDiscard ==
    /\ bcast.pc = "sending"
    /\ bcast.todo = {}
    /\ connected_clients' = connected_clients \ bcast.dead_clients
    /\ broken' = broken \ bcast.dead_clients
    /\ bcast' = [bcast EXCEPT !.pc = "done"]
    /\ UNCHANGED <<units, mitm, observer, bk_msg, bk_out, startup, demux>>

WsNext ==
    \/ \E c \in Clients : ws_accept(c)
    \/ \E c \in Clients : PeerGone(c)
    \/ \E c \in Clients : ws_disconnect(c)
    \/ \E msg \in Msgs : broadcast_message(msg)
    \/ \E c \in Clients : BroadcastSend(c)
    \/ BroadcastDiscard

Init == MitmInit /\ BackendInit /\ UnitsInit

Spec == Init /\ [][Next]_vars

BackendSpec == Init /\ [][BackendNext]_vars

DemuxSpec == Init /\ [][DemuxNext]_vars

WsSpec == Init /\ [][WsNext]_vars

(***************************************************************************)
(* Properties.                                                             *)
(***************************************************************************)
\* The main thread's steps, the operator's typing left out.
MainThread ==
    \/ PollStop
    \/ PollQuit
    \/ SelectTimeout
    \/ \E d \in Datagrams :
         \/ RecvSetpointNew(d)
         \/ RecvSetpointSame(d)
         \/ RecvUntracked(d)
         \/ RecvVehicle(d)
         \/ RecvOther(d)
    \/ AskX
    \/ AskY
    \/ AskInvalid
    \/ AskAltTakeover
    \/ AskAltKeep
    \/ SignalPrevious
    \/ NoPrevious
    \/ JoinPrevious
    \/ StartInjector

\* A send of `out` that hands the vehicle a datagram of the controller's
\* which carries a tracked setpoint.
ControllerSetpointToVehicle(o) ==
    /\ o.to = PX4_IP
    /\ o.origin = CONTROLLER_IP
    /\ FindSetpoint(parse_datagram(o.payload)) # NoMessage

Sends == { out[i] : i \in 1..Len(out) }

\* C1: at most one injector thread is alive in every reachable state, and
\* when the main thread is about to start a replacement no injector is alive:
\* the previous one has been signalled and joined.
C1_AtMostOneInjector ==
    /\ Cardinality(AliveThreads) <= 1
    /\ pc = "start" => AliveThreads = {}

\* C1 witness: a takeover found the previous injector alive, signalled it,
\* and the thread has ended while the main thread is in join().
C1_PreviousJoined ==
    pc = "join" /\ stop_event /\ taking_over /\ AliveThreads = {}

C3_InjectorSoleSourceWhileActive ==
    taking_over => \A o \in Sends : ~ControllerSetpointToVehicle(o)

\* C4: once a stop command has been processed (status is passthrough) no
\* injected frame is sent to the vehicle.
C4_NoInjectionAfterStop ==
    \A o \in Sends : o.origin = "injector" => taking_over

\* C5: the stored position is the one observed last, the stored repeat count
\* is the number of times it has been observed again since it was stored (0
\* right after a change), an 'unchanged' message carries that count, and a
\* 'packet' message carries the count the previous position had reached.
C5_DedupCounts ==
    /\ LAST_POS = seen_last
    /\ LAST_POS_REPEAT = seen_run
    /\ bk_msg.type = "none" => bk_msg.repeat = seen_run /\ seen_run >= 1
    /\ bk_msg.type = "packet" => bk_msg.repeat = seen_prev_run /\ LAST_POS_REPEAT = 0

\* C5 witness: a position changed after it had been repeated at least twice.
C5_ChangedAfterRepeats ==
    bk_msg.type = "packet" /\ bk_msg.repeat >= 2 /\ LAST_POS_REPEAT = 0

C8_NeverBlockedOnOperator ==
    pc \in {"ask_x", "ask_y", "ask_alt"} => ENABLED MainThread

\* C9: whatever the router sends to the vehicle on behalf of a datagram it
\* received came from the controller's address.
C9_OnlyControllerForwarded ==
    \A o \in Sends : (o.to = PX4_IP /\ o.origin # "injector") => o.origin = CONTROLLER_IP

\* C10: a step that handles a datagram from the vehicle's address sends it to
\* the controller, once, sends nothing to the vehicle, and leaves the last
\* signature, the frequency window, the rate estimate and the takeover status
\* as they were.
C10_VehicleForwarded ==
    [][ev'.data.src = PX4_IP =>
          /\ out' = <<Send(CONTROLLER_IP, PX4_IP, ev'.data.payload)>>
          /\ UNCHANGED <<last_sig, last_setpoint_time, intervals, learned_hz,
                         taking_over, inject_thread>>]_vars

\* C10 witness: a vehicle datagram was handled during a takeover, after a
\* setpoint had been seen.
C10_VehicleWhileActive ==
    ev.what = "Vehicle" /\ taking_over /\ last_sig # NoSig /\ AliveThreads # {}

\* C11: a step that handles a controller datagram which decodes to messages,
\* none of them a tracked setpoint, sends it to the vehicle unchanged, once,
\* whatever the takeover status, and leaves the last signature, the frequency
\* window, the rate estimate and the takeover status as they were.
C11_UntrackedForwarded ==
    [][(/\ ev'.data.src = CONTROLLER_IP
        /\ parse_datagram(ev'.data.payload) # <<>>
        /\ FindSetpoint(parse_datagram(ev'.data.payload)) = NoMessage) =>
          /\ out' = <<Send(PX4_IP, CONTROLLER_IP, ev'.data.payload)>>
          /\ UNCHANGED <<last_sig, last_setpoint_time, intervals, learned_hz,
                         taking_over, inject_thread>>]_vars

\* C11 witness: a heartbeat-only controller datagram was forwarded during a
\* takeover, with a signature stored and the frequency window in use.
C11_UntrackedWhileActive ==
    /\ ev.data.src = CONTROLLER_IP
    /\ parse_datagram(ev.data.payload) # <<>>
    /\ FindSetpoint(parse_datagram(ev.data.payload)) = NoMessage
    /\ out = <<Send(PX4_IP, CONTROLLER_IP, ev.data.payload)>>
    /\ taking_over /\ last_sig # NoSig /\ intervals # <<>>

\* C12: a takeover is armed only when the operator's (x, y, altitude) differs
\* from the observed setpoint's in a component after both are rounded to three
\* decimals, and a setpoint the operator keeps is forwarded to the vehicle
\* once.
C12_TakeoverIffRoundedDiffers ==
    /\ ev.what = "Takeover" =>
          LET m == FindSetpoint(parse_datagram(ev.data.payload))
          IN \/ Round3(inject.x) # Round3(m.x)
             \/ Round3(inject.y) # Round3(m.y)
             \/ Round3(inject.alt) # Round3(-m.z)
    /\ ev.what = "Kept" => out = <<Send(PX4_IP, CONTROLLER_IP, ev.data.payload)>>

\* C13: the injector started for an override carries the operator's x, y and
\* altitude, the overridden setpoint's yaw and the learned rate (10 Hz when
\* none is learned), and while the takeover lasts no controller datagram with
\* the overridden setpoint's signature is sent to the vehicle.
C13_OverriddenSetpointSuppressed ==
    /\ ev.what = "Takeover" =>
          /\ inject.yaw = FindSetpoint(parse_datagram(ev.data.payload)).yaw
          /\ inject.hz = IF learned_hz # NoHz THEN learned_hz
                         ELSE Hz(DEFAULT_INJECT_HZ, 1)
    /\ ev.what = "Started" =>
          threads[inject_thread] =
              [pc |-> "init", x |-> inject.x, y |-> inject.y, yaw |-> inject.yaw,
               alt |-> inject.alt, hz |-> inject.hz]
    /\ taking_over =>
          \A o \in Sends :
              (o.to = PX4_IP /\ o.origin = CONTROLLER_IP) =>
                  msg_sig(FindSetpoint(parse_datagram(o.payload))) # taken_sig

\* C20: while the takeover is active, get_control_signal returns the x, y and
\* altitude of every injector that has passed its start-up and is emitting.
C20_ControlSignalIsInjectorTarget ==
    taking_over =>
        \A i \in AliveThreads :
            threads[i].pc # "init" =>
                current_control_signal =
                    [x |-> threads[i].x, y |-> threads[i].y, z |-> threads[i].alt]

\* C14: every position packet the raw observer processes schedules one
\* message for the subscribers: a 'packet' message with repeat count 0 for the
\* first position, a 'packet' message with the count the previous position
\* had reached for a changed position, and a 'none' message with the stored
\* position and the count so far, 1, 2, ..., for a repeated one.
C14_OneNotificationPerSetpoint ==
    [][<<seen_last, seen_run>>' # <<seen_last, seen_run>> =>
          /\ bk_msg'.position = seen_last'
          /\ IF seen_last = NoPos
             THEN bk_msg'.type = "packet" /\ bk_msg'.repeat = 0
             ELSE IF seen_last' = seen_last
             THEN bk_msg'.type = "none" /\ bk_msg'.repeat = seen_run + 1
             ELSE bk_msg'.type = "packet" /\ bk_msg'.repeat = seen_run]_vars

\* C14 witness: the third of three identical positions was reported as
\* unchanged with count 2.
C14_ThirdIdentical ==
    /\ bk_msg.type = "none" /\ bk_msg.repeat = 2
    /\ bk_msg.position = LAST_POS /\ seen_run = 2 /\ seen_prev_run = 0

\* C15 as claimed: the raw observer reports a position packet as unchanged
\* exactly when its message type, its rounded x, y, z and its yaw all equal
\* those of the packet observed before it.
C15_FullSignatureCompared ==
    [][(seen_pkt # NoPacket /\ <<seen_last, seen_run>>' # <<seen_last, seen_run>>) =>
          LET F(pkt) == IF "payload" \in DOMAIN pkt.app.fields
                        THEN pkt.app.fields.payload ELSE pkt.app.fields
              Sig(pkt) == <<pkt.app.msg_name, Round3(F(pkt).x), Round3(F(pkt).y),
                            Round3(F(pkt).z),
                            IF "yaw" \in DOMAIN F(pkt) THEN Round3(F(pkt).yaw) ELSE 0>>
          IN bk_msg'.type = "none" <=> Sig(seen_pkt') = Sig(seen_pkt)]_vars

\* C15 as amended: the raw observer reports a position packet as unchanged
\* exactly when its x, y and z, each rounded to three decimals, equal those
\* of the packet observed before it; message type and yaw are not compared.
C15_PositionCompared ==
    [][(seen_pkt # NoPacket /\ <<seen_last, seen_run>>' # <<seen_last, seen_run>>) =>
          LET F(pkt) == IF "payload" \in DOMAIN pkt.app.fields
                        THEN pkt.app.fields.payload ELSE pkt.app.fields
              Pos(pkt) == <<Round3(F(pkt).x), Round3(F(pkt).y), Round3(F(pkt).z)>>
          IN bk_msg'.type = "none" <=> Pos(seen_pkt') = Pos(seen_pkt)]_vars

\* C15 witness: a packet of another message type with the same position was
\* reported as unchanged.
C15_TypeChangeUnreported ==
    /\ bk_msg.type = "none"
    /\ seen_pkt.app.msg_name = "POSITION_TARGET_LOCAL_NED"
    /\ LAST_PACKET.app.msg_name = "SET_POSITION_TARGET_LOCAL_NED"

\* C16: no worker has failed to bind its socket while the application is up
\* and serving.
C16_BindFailureAborts ==
    (\E w \in Workers : workers[w] = "failed") => app_pc # "serving"

\* C17: the demultiplexer returns none for a frame whose Ethernet type is not
\* IPv4 and for an IPv4 frame whose protocol is not UDP, and for a well-formed
\* Ethernet + IPv4 + UDP frame, with or without IPv4 options, it returns the
\* addresses of the IPv4 header and the ports and the payload found behind
\* the header of 4 * IHL bytes.
C17_Demultiplexed ==
    /\ frame_desc.eth_type # ETH_IPV4 => parsed = None
    /\ (frame_desc.eth_type = ETH_IPV4 /\ frame_desc.proto # PROTO_UDP) => parsed = None
    /\ (/\ frame_desc.eth_type = ETH_IPV4
        /\ frame_desc.proto = PROTO_UDP
        /\ frame_desc.ihl = 5 + frame_desc.options
        /\ frame_desc.udp_len = 8 + Len(frame_desc.payload)
        /\ frame_desc.keep >= 14 + 4 * frame_desc.ihl + frame_desc.udp_len) =>
          /\ parsed # None
          /\ parsed.src_ip = SRC_ADDR /\ parsed.src_port = SRC_PORT
          /\ parsed.dst_ip = DST_ADDR /\ parsed.dst_port = UDP_PORT
          /\ parsed.udp_payload = frame_desc.payload

\* C17 witness: a well-formed UDP frame whose IPv4 header carries options was
\* demultiplexed and its payload returned.
C17_OptionsFrameParsed ==
    /\ frame_desc.eth_type = ETH_IPV4 /\ frame_desc.proto = PROTO_UDP
    /\ frame_desc.ihl = 6 /\ frame_desc.options = 1
    /\ frame_desc.payload # <<>>
    /\ parsed # None
    /\ parsed.udp_payload = frame_desc.payload

\* C18: the demultiplexer returns none for a frame whose IHL nibble or whose
\* UDP length field declares more bytes than the frame holds, and a payload
\* it returns does not go past the end the UDP length field declares.
C18_DeclaredLengthsChecked ==
    /\ (/\ frame_desc.eth_type = ETH_IPV4
        /\ Len(frame) >= 14 + 20
        /\ 14 + 4 * frame_desc.ihl > Len(frame)) => parsed = None
    /\ (/\ frame_desc.eth_type = ETH_IPV4
        /\ frame_desc.proto = PROTO_UDP
        /\ Len(frame) >= 14 + 4 * frame_desc.ihl + 8
        /\ 14 + 4 * frame_desc.ihl + frame_desc.udp_len > Len(frame)) => parsed = None
    /\ parsed # None => Len(parsed.udp_payload) + 8 <= frame_desc.udp_len

\* C19: a broadcast tries every subscriber that was in the set when it began;
\* the ones whose send raised are removed from the set when it ends and no
\* other subscriber is removed by it; every other subscriber of the beginning
\* was sent the message.
C19_DeadSubscriberDropped ==
    [][(bcast.pc = "sending" /\ bcast' # bcast) =>
          /\ bcast'.sent \cap bcast'.dead_clients = {}
          /\ IF bcast'.pc = "done"
             THEN /\ connected_clients' = connected_clients \ bcast.dead_clients
                  /\ bcast'.sent = bcast.start \ bcast.dead_clients
             ELSE connected_clients' = connected_clients]_vars

\* C19 witness: a broadcast ended in which the send to one subscriber failed
\* and the sends to two others succeeded; the failed one
\* is gone from the set, the others are still in it.
C19_OneDeadOthersServed ==
    /\ bcast.pc = "done"
    /\ bcast.dead_clients # {}
    /\ Cardinality(bcast.sent) >= 2
    /\ bcast.sent \subseteq connected_clients
    /\ bcast.dead_clients \cap connected_clients = {}

\* C21: the latest-packet query answers 'no packet yet' exactly when no
\* position packet has been observed; otherwise the packet it returns has the
\* stored last position, it is the packet of the observation just made when
\* that one was the first or a changed one, and a repeated observation leaves
\* it as it was.
C21_LatestIsLastChange ==
    /\ [](get_latest.ok <=> seen_last # NoPos)
    /\ [](get_latest.ok =>
            LET f == IF "payload" \in DOMAIN get_latest.packet.app.fields
                     THEN get_latest.packet.app.fields.payload
                     ELSE get_latest.packet.app.fields
            IN <<Round3(f.x), Round3(f.y), Round3(f.z)>> = LAST_POS)
    /\ [][<<seen_last, seen_run>>' # <<seen_last, seen_run>> =>
            IF seen_last # NoPos /\ seen_last' = seen_last
            THEN get_latest' = get_latest
            ELSE get_latest' = [ok |-> TRUE, packet |-> seen_pkt']]_vars

\* C21 witness: after a repeated observation carried by a different packet
\* the query still returns the packet of the last change.
C21_RepeatNotStored ==
    /\ get_latest.ok
    /\ get_latest.packet # seen_pkt
    /\ seen_run >= 1

(***************************************************************************)
(* The two decoders on the same bytes: parse_datagram of src/mitm.py and   *)
(* parse_mavlink_bytes of src/backend/parsers/mavlink_parser.py.  Both     *)
(* feed the bytes to a pymavlink MAVLink object, which verifies the        *)
(* checksum of every complete frame: on a mismatch parse_char raises       *)
(* MAVError, or returns a BAD_DATA message when robust_parsing is set.     *)
(***************************************************************************)
MaxFrames == 2       \* frames in one decoded datagram

\* A complete frame as sent: its content and whether its checksum matches.
Wire(crc_ok, f) == [crc_ok |-> crc_ok, f |-> f]

PositionTarget == Frame(TRUE, "POSITION_TARGET_LOCAL_NED", 10000, 20000, -30000, 0)

WireFrames ==
    { Wire(c, f) : c \in BOOLEAN,
                   f \in {Heartbeat, LocalPos, SetpointA, SetpointB, PositionTarget} }
      \cup { Wire(FALSE, JunkFrame) }

WirePayloads == UNION { [1..n -> WireFrames] : n \in 0..MaxFrames }

\* MAVLINK_IGNORE_CRC set: the parser takes the frame whatever its checksum.
parse_char_ignore_crc(w) == w.f

\* parser.parse_char over the bytes of one frame: a message only when the
\* frame is whole and its checksum matches.
parse_char(w) == [w.f EXCEPT !.ok = w.f.ok /\ w.crc_ok]

Received(data) == [i \in 1..Len(data) |-> parse_char(data[i])]

\* _msg_to_dict
msg_to_dict(f) ==
    IF ~f.ok
    THEN [kind |-> "bad_data"]
    ELSE [kind |-> "message", msg_name |-> f.type,
          fields |-> [x |-> f.x, y |-> f.y, z |-> f.z, yaw |-> f.yaw]]

parse_mavlink_bytes(data) ==
    IF data = <<>>
    THEN NoMav
    ELSE LET msg_dicts == [i \in 1..Len(data) |-> msg_to_dict(data[i])]
         IN [is_mavlink |-> \E i \in 1..Len(data) : msg_dicts[i].kind = "message",
             message_count |-> Len(msg_dicts),
             messages |-> msg_dicts]

\* One datagram goes through both decoders.
Decode(data) ==
    /\ rx' = data
    /\ rx_msgs' = parse_datagram(Received(data))
    /\ rx_mav' = parse_mavlink_bytes(Received(data))
    /\ UNCHANGED <<mitm, observer, bk_msg, bk_out, startup, demux, ws, estimator, locking, push>>

CodecNext == \E data \in WirePayloads : Decode(data)

CodecSpec == Init /\ [][CodecNext]_vars

Intact(i) == rx[i].crc_ok /\ rx[i].f.ok

MaxTimed == 43       \* tracked setpoints in one run
FreeGaps == 4        \* leading gaps that are chosen freely

\* now - last_setpoint_time in ms.  time.time() is the wall clock, so a gap
\* can be zero or negative.  The first arrival measures nothing; the leading
\* gaps are free, the later ones all differ so that their order shows.
GapsAt(k) ==
    IF k = 1 THEN {0}
    ELSE IF k <= FreeGaps + 1 THEN {-100, 0, 50, 100}
    ELSE {100 + k}

\* if found: now = time.time(); ...; last_setpoint_time = now
Arrival(gap) ==
    /\ arrivals < MaxTimed
    /\ gap \in GapsAt(arrivals + 1)
    /\ RecordArrival(gap)
    /\ arrivals' = arrivals + 1
    /\ gap_log' = IF last_setpoint_time > 0 THEN Append(gap_log, gap) ELSE gap_log
    /\ UNCHANGED <<pc, input_q, last_sig, taking_over, inject_thread, inject, taken_sig,
                   stop_event, threads, current_control_signal, cur, out, ev>>
    /\ UNCHANGED <<observer, bk_msg, bk_out, startup, demux, ws, codec, locking, push>>

EstimatorNext == \E gap \in -100..(100 + MaxTimed + 1) : Arrival(gap)

EstimatorSpec == Init /\ [][EstimatorNext]_vars

Min(a, b) == IF a <= b THEN a ELSE b

\* The last n elements of s, in order.
LastN(s, n) == SubSeq(s, Len(s) - n + 1, Len(s))

\* C23: the window never holds more than 40 intervals; the first arrival
\* pushes nothing; after k arrivals the window is exactly the most recent
\* min(k-1, 40) gaps measured, in arrival order.
C23_WindowIsRecentGaps ==
    /\ Len(intervals) <= 40
    /\ arrivals <= 1 => intervals = <<>>
    /\ arrivals >= 1 =>
          /\ Len(gap_log) = arrivals - 1
          /\ intervals = LastN(gap_log, Min(arrivals - 1, 40))

\* C23 witness: after 43 arrivals the window is full and the two oldest gaps
\* have been evicted.
C23_OldestEvicted ==
    /\ arrivals = 43
    /\ Len(intervals) = 40
    /\ intervals[1] = gap_log[3]
    /\ intervals[40] = gap_log[42]

\* A rate as a fraction is strictly positive.
Positive(hz) == hz[1] > 0 /\ hz[2] > 0

CriticalButInjector == {"stop", "take", "same"}

\* The statements written inside 'with takeover_lock:'.
Critical == {"stop", "take", "same", "inj_test"}

Holds(t) == takeover_lock = t

Touch(t, names) == { [by |-> t, name |-> n, held |-> Holds(t)] : n \in names }

\* with takeover_lock: the thread waits until the lock is free.
Enter(t, stmt) ==
    IF stmt \in Critical
    THEN takeover_lock = "free" /\ takeover_lock' = t
    ELSE UNCHANGED takeover_lock

\* The end of the with block.
Leave(t) == takeover_lock' = IF Holds(t) THEN "free" ELSE takeover_lock

LkOther == <<pc, input_q, inject, taken_sig, threads, current_control_signal, cur,
             out, ev, observer, bk_msg, bk_out, startup, demux, ws, codec, estimator,
             push>>

LkTiming == <<last_setpoint_time, intervals, learned_hz>>

\* if cmd.lower() == "stop": with takeover_lock:
LkStopEnter ==
    /\ at = "poll"
    /\ Enter("main", "stop")
    /\ at' = "stop"
    /\ access' = {}
    /\ UNCHANGED <<inj_at, sig, last_sig, taking_over, inject_thread, stop_event,
                   LkTiming, LkOther>>

\* taking_over = False
LkStop ==
    /\ at = "stop"
    /\ taking_over' = FALSE
    /\ access' = Touch("main", {"taking_over"})
    /\ Leave("main")
    /\ at' = "poll"
    /\ UNCHANGED <<inj_at, sig, last_sig, inject_thread, stop_event, LkTiming, LkOther>>

\* A tracked controller setpoint: sig = msg_sig(found), then the estimator.
LkRecv(s) ==
    /\ at = "poll"
    /\ Arrived < MaxArrivals
    /\ sig' = s
    /\ \E gap \in Gaps : RecordArrival(gap)
    /\ access' = Touch("main", {"last_setpoint_time", "intervals", "learned_hz"})
    /\ at' = "compare"
    /\ UNCHANGED <<takeover_lock, inj_at, last_sig, taking_over, inject_thread,
                   stop_event, LkOther>>

\* if sig != last_sig: last_sig = sig
LkCompare ==
    /\ at = "compare"
    /\ access' = Touch("main", {"last_sig"})
    /\ IF sig # last_sig
       THEN last_sig' = sig /\ at' = "prompt"
       ELSE last_sig' = last_sig /\ at' = "same_enter"
    /\ UNCHANGED <<takeover_lock, inj_at, sig, taking_over, inject_thread, stop_event,
                   LkTiming, LkOther>>

\* The three prompts, and whether the answers change the setpoint.
LkPrompt(changed) ==
    /\ at = "prompt"
    /\ access' = {}
    /\ at' = IF changed THEN "take_enter" ELSE "poll"
    /\ UNCHANGED <<takeover_lock, inj_at, sig, last_sig, taking_over, inject_thread,
                   stop_event, LkTiming, LkOther>>

\* if changed: with takeover_lock:
LkTakeEnter ==
    /\ at = "take_enter"
    /\ Enter("main", "take")
    /\ at' = "take"
    /\ access' = {}
    /\ UNCHANGED <<inj_at, sig, last_sig, taking_over, inject_thread, stop_event,
                   LkTiming, LkOther>>

\* taking_over = True
LkTake ==
    /\ at = "take"
    /\ taking_over' = TRUE
    /\ access' = Touch("main", {"taking_over"})
    /\ Leave("main")
    /\ at' = "replace"
    /\ UNCHANGED <<inj_at, sig, last_sig, inject_thread, stop_event, LkTiming, LkOther>>

\* if inject_thread and inject_thread.is_alive(): stop_event.set()
LkReplace ==
    /\ at = "replace"
    /\ access' = Touch("main", {"inject_thread"})
    /\ IF inject_thread # 0 /\ inj_at \notin {"none", "dead"}
       THEN stop_event' = TRUE /\ at' = "join"
       ELSE stop_event' = stop_event /\ at' = "start"
    /\ UNCHANGED <<takeover_lock, inj_at, sig, last_sig, taking_over, inject_thread,
                   LkTiming, LkOther>>

\* inject_thread.join(); stop_event.clear()
LkJoin ==
    /\ at = "join"
    /\ inj_at = "dead"
    /\ stop_event' = FALSE
    /\ access' = Touch("main", {"inject_thread"})
    /\ at' = "start"
    /\ UNCHANGED <<takeover_lock, inj_at, sig, last_sig, taking_over, inject_thread,
                   LkTiming, LkOther>>

\* inject_thread = threading.Thread(...); inject_thread.start()
LkStart ==
    /\ at = "start"
    /\ inject_thread' = 1
    /\ inj_at' = "loop"
    /\ access' = Touch("main", {"inject_thread"})
    /\ at' = "poll"
    /\ UNCHANGED <<takeover_lock, sig, last_sig, taking_over, stop_event, LkTiming,
                   LkOther>>

\* else: with takeover_lock:
LkSameEnter ==
    /\ at = "same_enter"
    /\ Enter("main", "same")
    /\ at' = "same"
    /\ access' = {}
    /\ UNCHANGED <<inj_at, sig, last_sig, taking_over, inject_thread, stop_event,
                   LkTiming, LkOther>>

\* if not taking_over: sendto(data, PX4)
LkSame ==
    /\ at = "same"
    /\ access' = Touch("main", {"taking_over"})
    /\ Leave("main")
    /\ at' = "poll"
    /\ UNCHANGED <<inj_at, sig, last_sig, taking_over, inject_thread, stop_event,
                   LkTiming, LkOther>>

\* injector_loop: if stop_event.is_set(): break
LkInjLoop ==
    /\ inj_at = "loop"
    /\ inj_at' = IF stop_event THEN "dead" ELSE "test_enter"
    /\ access' = {}
    /\ UNCHANGED <<takeover_lock, at, sig, last_sig, taking_over, inject_thread,
                   stop_event, LkTiming, LkOther>>

\* with takeover_lock:
LkInjEnter ==
    /\ inj_at = "test_enter"
    /\ Enter("inj", "inj_test")
    /\ inj_at' = "test"
    /\ access' = {}
    /\ UNCHANGED <<at, sig, last_sig, taking_over, inject_thread, stop_event,
                   LkTiming, LkOther>>

\* if not taking_over: break
LkInjTest ==
    /\ inj_at = "test"
    /\ access' = Touch("inj", {"taking_over"})
    /\ Leave("inj")
    /\ inj_at' = IF taking_over THEN "send" ELSE "dead"
    /\ UNCHANGED <<at, sig, last_sig, taking_over, inject_thread, stop_event,
                   LkTiming, LkOther>>

\* set_position_target_local_ned_send(...); time.sleep(period)
LkInjSend ==
    /\ inj_at = "send"
    /\ inj_at' = "loop"
    /\ access' = {}
    /\ UNCHANGED <<takeover_lock, at, sig, last_sig, taking_over, inject_thread,
                   stop_event, LkTiming, LkOther>>

LockNext ==
    \/ LkStopEnter
    \/ LkStop
    \/ \E m \in {SetpointA, SetpointB} : LkRecv(msg_sig(Message(m)))
    \/ LkCompare
    \/ \E changed \in BOOLEAN : LkPrompt(changed)
    \/ LkTakeEnter
    \/ LkTake
    \/ LkReplace
    \/ LkJoin
    \/ LkStart
    \/ LkSameEnter
    \/ LkSame
    \/ LkInjLoop
    \/ LkInjEnter
    \/ LkInjTest
    \/ LkInjSend

LockSpec == Init /\ [][LockNext]_vars

Change(n) ==
    Packet(CONTROLLER_IP, UDP_PORT,
           App(TRUE, "SET_POSITION_TARGET_LOCAL_NED",
               [x |-> n * 10000, y |-> 20000, z |-> -30000]))

\* Which change a packet is, 0 for no packet.
SeqNo(pkt) == IF pkt = NoPacket THEN 0 ELSE pkt.app.fields.x \div 10000

PushOther == <<mitm, bk_msg, bk_out, startup, demux, bcast, codec, estimator, locking,
               seen_last, seen_run, seen_prev_run, seen_pkt>>

\* raw_worker, with LOCK: the first or a changed position is stored.
CapStore ==
    /\ to_schedule = NoPacket
    /\ SeqNo(LAST_PACKET) < MaxChanges
    /\ LET pkt == Change(SeqNo(LAST_PACKET) + 1)
           r == Observe(LAST_POS, LAST_POS_REPEAT, extract_xyz_from_app(pkt.app))
       IN /\ RawAccepted(pkt)
          /\ LAST_POS' = r.pos
          /\ LAST_POS_REPEAT' = r.repeat
          /\ LAST_PACKET' = IF r.store THEN pkt ELSE LAST_PACKET
          /\ to_schedule' = IF r.msg.type = "packet" THEN pkt ELSE NoPacket
    /\ UNCHANGED <<ready, tasks, conn, loop_busy, delivered, added_at,
                   connected_clients, broken, PushOther>>

\* asyncio.run_coroutine_threadsafe(broadcast_packet(pkt_dict), loop), after
\* the lock has been released.
CapSchedule ==
    /\ to_schedule # NoPacket
    /\ ready' = Append(ready, to_schedule)
    /\ to_schedule' = NoPacket
    /\ UNCHANGED <<tasks, conn, loop_busy, delivered, added_at, connected_clients,
                   broken, LAST_PACKET, LAST_POS, LAST_POS_REPEAT, PushOther>>

\* broadcast_message up to its loop: if not connected_clients: return;
\* for ws in list(connected_clients)
BcastStart ==
    /\ loop_busy = 0
    /\ ready # <<>>
    /\ ready' = Tail(ready)
    /\ tasks' = IF connected_clients = {}
                THEN tasks
                ELSE tasks \cup { [pkt |-> Head(ready), todo |-> connected_clients,
                                   dead_clients |-> {}] }
    /\ UNCHANGED <<to_schedule, conn, loop_busy, delivered, added_at, connected_clients,
                   broken, LAST_PACKET, LAST_POS, LAST_POS_REPEAT, PushOther>>

\* await ws.send_text(text) for the next client of the list; after the last
\* one the clients whose send raised are discarded.
SendNext(t, c) ==
    /\ loop_busy = 0
    /\ t \in tasks
    /\ c \in t.todo
    /\ LET raises == c \in broken
           t2 == [t EXCEPT !.todo = @ \ {c},
                           !.dead_clients = IF raises THEN @ \cup {c} ELSE @]
       IN /\ delivered' = IF raises THEN delivered
                          ELSE [delivered EXCEPT ![c] = Append(@, SeqNo(t.pkt))]
          /\ IF t2.todo = {}
             THEN /\ tasks' = tasks \ {t}
                  /\ connected_clients' = connected_clients \ t2.dead_clients
             ELSE /\ tasks' = (tasks \ {t}) \cup {t2}
                  /\ connected_clients' = connected_clients
    /\ UNCHANGED <<to_schedule, ready, conn, loop_busy, added_at, broken,
                   LAST_PACKET, LAST_POS, LAST_POS_REPEAT, PushOther>>

\* ws_parse: await ws.accept()
WsAccept(c) ==
    /\ conn[c] = "none"
    /\ conn' = [conn EXCEPT ![c] = "accepted"]
    /\ UNCHANGED <<to_schedule, ready, tasks, loop_busy, delivered, added_at,
                   connected_clients, broken, LAST_PACKET, LAST_POS, LAST_POS_REPEAT,
                   PushOther>>

\* connected_clients.add(ws)
WsAdd(c) ==
    /\ conn[c] = "accepted"
    /\ loop_busy = 0
    /\ connected_clients' = connected_clients \cup {c}
    /\ loop_busy' = c
    /\ added_at' = [added_at EXCEPT ![c] = SeqNo(LAST_PACKET)]
    /\ conn' = [conn EXCEPT ![c] = "added"]
    /\ UNCHANGED <<to_schedule, ready, tasks, delivered, broken,
                   LAST_PACKET, LAST_POS, LAST_POS_REPEAT, PushOther>>

\* The new client is not pushed anything.
InitialPushNone(pkt) == NoPacket

\* with LOCK: pkt = LAST_PACKET
InitialPush(pkt) == pkt

\* if pkt is not None: await ws.send_text(...); then the receive loop.  A
\* send that raises ends the handler before its try block.
WsSnapshot(c) ==
    /\ loop_busy = c
    /\ LET pkt == InitialPush(LAST_PACKET)
       IN IF pkt = NoPacket
          THEN /\ conn' = [conn EXCEPT ![c] = "open"]
               /\ delivered' = delivered
          ELSE IF c \in broken
          THEN /\ conn' = [conn EXCEPT ![c] = "failed"]
               /\ delivered' = delivered
          ELSE /\ conn' = [conn EXCEPT ![c] = "open"]
               /\ delivered' = [delivered EXCEPT ![c] = Append(@, SeqNo(pkt))]
    /\ loop_busy' = 0
    /\ UNCHANGED <<to_schedule, ready, tasks, added_at, connected_clients, broken,
                   LAST_PACKET, LAST_POS, LAST_POS_REPEAT, PushOther>>

\* The peer of a connected client goes away: every later send to it raises.
SubscriberGone(c) ==
    /\ c \in connected_clients
    /\ c \notin broken
    /\ broken' = broken \cup {c}
    /\ UNCHANGED <<to_schedule, ready, tasks, conn, loop_busy, delivered, added_at,
                   connected_clients, LAST_PACKET, LAST_POS, LAST_POS_REPEAT, PushOther>>

BcastSend(c) == \E t \in tasks : SendNext(t, c)

PushNext ==
    \/ CapStore
    \/ CapSchedule
    \/ BcastStart
    \/ \E c \in Subscribers : BcastSend(c)
    \/ \E c \in Subscribers : WsAccept(c)
    \/ \E c \in Subscribers : WsAdd(c)
    \/ \E c \in Subscribers : WsSnapshot(c)
    \/ \E c \in Subscribers : SubscriberGone(c)

PushSpec == Init /\ [][PushNext]_vars

\* C26 as stated: what a subscriber is sent never goes back to an older
\* change, neither between two broadcasts nor after its initial snapshot.
C26_NeverOlderAfterNewer ==
    \A c \in Subscribers :
        \A i, j \in DOMAIN delivered[c] : i < j => delivered[c][i] <= delivered[c][j]

\* Nothing is stored, scheduled or running that is still to be sent.
Quiescent ==
    /\ to_schedule = NoPacket
    /\ ready = <<>>
    /\ tasks = {}
    /\ loop_busy = 0

Sent(c) == { delivered[c][i] : i \in DOMAIN delivered[c] }

\* C27: a subscriber whose sends never fail misses no change.  Once every
\* scheduled broadcast has run, a subscriber in the broadcast set whose peer
\* is still there has been sent every change stored after it was added, and
\* the latest change in any case.
C27_NoChangeMissed ==
    Quiescent =>
        \A c \in Subscribers :
            conn[c] = "open" /\ c \notin broken =>
                \A n \in 1..SeqNo(LAST_PACKET) :
                    n > added_at[c] \/ n = SeqNo(LAST_PACKET) => n \in Sent(c)

\* C27 witness: a subscriber added after the first change was stored has been
\* sent that change as its snapshot and the next one by broadcast.
C27_SnapshotThenBroadcasts ==
    /\ Quiescent
    /\ \E c \in Subscribers :
          /\ conn[c] = "open"
          /\ c \notin broken
          /\ added_at[c] = 1
          /\ delivered[c] = <<1, 2>>

(***************************************************************************)
(* src/mitm.py with the operator typing ahead: the router, its prompts and *)
(* the injector as above, fed with tracked controller setpoints only and   *)
(* with room for more than one line in input_q.  The main thread and the   *)
(* injector threads are scheduled fairly; the network and the operator     *)
(* are not.                                                                *)
(***************************************************************************)
MaxQueued == 2       \* operator lines waiting in input_q when typing ahead
MaxSetpoints == 2    \* tracked controller setpoints that arrive meanwhile

ConsoleLines == { Line("blank", 0), Line("stop", 0), Line("num", 10004) }

ConsoleDatagrams ==
    { Datagram(CONTROLLER_IP, <<SetpointA>>),
      Datagram(CONTROLLER_IP, <<SetpointB, Heartbeat>>) }

\* stdin_reader with a queue that holds MaxQueued lines.
Typed(line) ==
    /\ Running
    /\ Len(input_q) < MaxQueued
    /\ input_q' = Append(input_q, line)
    /\ out' = <<>>
    /\ ev' = NoEv
    /\ UNCHANGED backend
    /\ UNCHANGED <<pc, last_sig, last_setpoint_time, intervals, learned_hz,
                   taking_over, inject_thread, inject, taken_sig, stop_event, threads,
                   current_control_signal, cur>>

ConsoleRecvNew(d) ==
    /\ Arrived < MaxSetpoints
    /\ RecvSetpointNew(d)

ConsoleRecvSame(d) ==
    /\ Arrived < MaxSetpoints
    /\ RecvSetpointSame(d)

\* The steps of the main thread that wait for nothing but the scheduler, or
\* for a line that is already in the queue.
MainStep ==
    \/ PollStop
    \/ SelectTimeout
    \/ AskX
    \/ AskY
    \/ AskInvalid
    \/ AskAltTakeover
    \/ AskAltKeep
    \/ SignalPrevious
    \/ NoPrevious
    \/ JoinPrevious
    \/ StartInjector

InjectorStep(i) ==
    \/ InjInit(i)
    \/ InjCheckStop(i)
    \/ InjCheckTakeover(i)
    \/ InjSend(i)

ConsoleNext ==
    \/ \E line \in ConsoleLines : Typed(line)
    \/ PollStop
    \/ SelectTimeout
    \/ \E d \in ConsoleDatagrams : ConsoleRecvNew(d)
    \/ \E d \in ConsoleDatagrams : ConsoleRecvSame(d)
    \/ AskX
    \/ AskY
    \/ AskInvalid
    \/ AskAltTakeover
    \/ AskAltKeep
    \/ SignalPrevious
    \/ NoPrevious
    \/ JoinPrevious
    \/ StartInjector
    \/ \E i \in Slots : InjInit(i)
    \/ \E i \in Slots : InjCheckStop(i)
    \/ \E i \in Slots : InjCheckTakeover(i)
    \/ \E i \in Slots : InjSend(i)

ConsoleSpec == Init /\ [][ConsoleNext]_vars

FairConsoleSpec ==
    /\ ConsoleSpec
    /\ WF_vars(MainStep)
    /\ \A i \in Slots : WF_vars(InjectorStep(i))

StopQueued == \E k \in DOMAIN input_q : input_q[k].k = "stop"

\* C28: a 'stop' that is in the queue while the takeover is active is
\* eventually applied, unless the router loop ends first.
C28_StopEventuallyApplied ==
    (taking_over /\ StopQueued) ~> (~taking_over \/ ~Running)

\* No replacement of the injector is in progress.
Settled == pc \notin {"chk_alive", "join", "start"}

Emitting(i) == threads[i].pc = "send"

C30_NoHeaderOverlap ==
    /\ (frame_desc.eth_type = ETH_IPV4 /\ Len(frame) >= 14 + 20 /\ frame[15] % 16 < 5)
          => parsed = None
    /\ parsed # None => 14 + 4 * (frame[15] % 16) >= 34

====
